---- MODULE Spec2Model ----
(***************************************************************************)
(* A model of src/api/index.ts (class AtelierAPI): the connection settings *)
(* resolver, the session cookie cache, the per-target authentication       *)
(* coordinator (authRequestMap) and the request pipeline.                  *)
(*                                                                         *)
(* JavaScript values: a string-valued field that may be undefined holds    *)
(* Undef; a number-valued field that may be undefined holds NoNum; a       *)
(* workspaceState slot is <<>> when the key is absent and <<v>> when it    *)
(* holds v.  Strings that the code scans (cookies) are sequences of        *)
(* one-character strings.                                                  *)
(***************************************************************************)
EXTENDS Integers, Sequences, FiniteSets, Bags, TLC

VARIABLES
  ws,              \* workspaceState: configName -> field -> <<>> or <<value>>
  cache,           \* the cookie cache: <<host, port>> -> sequence of cookies
  authRequestMap,  \* target -> NoAuth, a pending handshake or a rejected one
  req,             \* the requests in flight: a bag of request records
  panel,           \* the status indicator
  checks,          \* the 1 s reconnection checks scheduled and not yet fired
  timers,          \* the delays of the setTimeout calls of the last step
  last,            \* what the requests that settled in the last step produced
  api,             \* the AtelierAPI instance under study
  probe            \* the call of request() the last step made on that instance

vars == <<ws, cache, authRequestMap, req, panel, checks, timers, last, api, probe>>

----------------------------------------------------------------------------
(* JavaScript values *)

Undef == "undefined"
NoNum == 0 - 1

\* Truthiness of a string-valued field: undefined and "" are falsy.
TruthyStr(s) == s # Undef /\ s # ""

\* Truthiness of a number-valued field: undefined and 0 are falsy.
TruthyNum(n) == n # NoNum /\ n # 0

\* a || b on string-valued operands.
OrStr(a, b) == IF TruthyStr(a) THEN a ELSE b

\* String.prototype.toLowerCase / toUpperCase on the names the model uses.
ToLowerCase(s) ==
  CASE s = "Srv" -> "srv"
    [] s = "USER" -> "user"
    [] OTHER -> s

ToUpperCase(s) ==
  CASE s = "user" -> "USER"
    [] s = "srv" -> "SRV"
    [] s = "Srv" -> "SRV"
    [] s = "proj" -> "PROJ"
    [] OTHER -> s

DEFAULT_API_VERSION == 1

----------------------------------------------------------------------------
(* workspaceState *)

ConfigNames == {"proj", "srv", "Srv"}
WsFields == {"host", "port", "password", "apiVersion", "docker", "iris"}

WsEmpty == [n \in ConfigNames |-> [f \in WsFields |-> <<>>]]

\* workspaceState.get(configName + ":" + field, default)
WsGet(w, name, field, default) ==
  IF w[name][field] = <<>> THEN default ELSE w[name][field][1]

\* workspaceState.update(configName + ":" + field, value); undefined removes
WsUpdate(w, name, field, slot) == [w EXCEPT ![name][field] = slot]

----------------------------------------------------------------------------
(* The collaborators of the constructor: the settings and the server list  *)

\* schemas (imported from ../extension): the URI schemes served from a server
Schemas == {"isfs", "isfs-readonly"}

\* currentWorkspaceFolder()
CurrentWorkspaceFolder == "proj"

\* config("intersystems.servers"): the registered external server definitions
RegisteredServers == {"srv"}

\* getResolvedConnectionSpec(serverName, ...): the definition of a server
ResolvedSpec(serverName) ==
  [host |-> "h1", port |-> 1, username |-> "u", password |-> "p"]

\* The constructor's argument: nothing, a workspace folder name, or a Uri.
NoWsOrFile == [kind |-> "none", name |-> "", scheme |-> "", ns |-> ""]
WsString(name) == [kind |-> "string", name |-> name, scheme |-> "", ns |-> ""]
WsUri(scheme, authority, ns) ==
  [kind |-> "uri", name |-> authority, scheme |-> scheme, ns |-> ns]

\* if (wsOrFile): a Uri is an object, a string is truthy unless empty
TruthyWsOrFile(x) ==
  \/ x.kind = "uri"
  \/ x.kind = "string" /\ x.name # ""

----------------------------------------------------------------------------
(* AtelierAPI: the constructor, setConnection and the getters *)

\* setConnection(workspaceFolderName, namespace), conn = config("conn", ...)
SetConnection(workspaceFolderName, namespace, conn) ==
  LET lower == ToLowerCase(workspaceFolderName)
      externalServer == lower \in RegisteredServers
      serverName ==
        IF externalServer THEN lower
        ELSE IF TruthyStr(conn.server) THEN conn.server
        ELSE ""
      ns == OrStr(namespace, conn.ns)
  IN  [configName |-> workspaceFolderName,
       externalServer |-> externalServer,
       _config |->
         IF serverName # ""
         THEN LET spec == ResolvedSpec(serverName)
              IN  [serverName |-> serverName,
                   active |-> IF ns = "" /\ externalServer
                              THEN FALSE
                              ELSE externalServer \/ conn.active,
                   ns |-> ns,
                   host |-> spec.host,
                   port |-> spec.port,
                   username |-> spec.username,
                   password |-> spec.password,
                   \* workspaceState.get(configName + ":apiVersion",
                   \* DEFAULT_API_VERSION): the instances are constructed
                   \* before serverInfo has stored a version
                   apiVersion |-> DEFAULT_API_VERSION,
                   docker |-> <<FALSE>>]
         ELSE [serverName |-> "",
               active |-> conn.active,
               ns |-> ns,
               host |-> conn.host,
               port |-> conn.port,
               username |-> conn.username,
               password |-> conn.password,
               apiVersion |-> conn.apiVersion,
               docker |-> conn.docker]]

\* new AtelierAPI(wsOrFile, retryAfter401)
Constructor(wsOrFile, retryAfter401, conn) ==
  LET isfs == wsOrFile.kind = "uri" /\ wsOrFile.scheme \in Schemas
      workspaceFolderName ==
        IF ~TruthyWsOrFile(wsOrFile) THEN ""
        ELSE IF wsOrFile.kind = "uri"
             THEN (IF isfs THEN wsOrFile.name ELSE "")
             ELSE wsOrFile.name
      namespace ==
        IF isfs /\ TruthyStr(wsOrFile.ns) THEN wsOrFile.ns ELSE ""
      c == SetConnection(OrStr(workspaceFolderName, CurrentWorkspaceFolder),
                         namespace, conn)
  IN  [wsOrFile |-> IF retryAfter401 THEN wsOrFile ELSE NoWsOrFile,
       namespace |-> Undef,
       configName |-> c.configName,
       externalServer |-> c.externalServer,
       _config |-> c._config]

\* setNamespace(namespace)
SetNamespace(a, namespace) == [a EXCEPT !.namespace = namespace]

\* get ns()
Ns(a) == ToUpperCase(OrStr(OrStr(a.namespace, a._config.ns), ""))

\* The getter with host and port read from workspaceState for every connection
ConfigFromOverrides(a, w) ==
  [serverName |-> a._config.serverName,
   active |-> a._config.active,
   apiVersion |-> WsGet(w, a.configName, "apiVersion", DEFAULT_API_VERSION),
   host |-> WsGet(w, a.configName, "host", a._config.host),
   port |-> WsGet(w, a.configName, "port", a._config.port),
   ns |-> OrStr(a.namespace, a._config.ns),
   username |-> a._config.username,
   password |-> WsGet(w, a.configName, "password", a._config.password),
   docker |-> WsGet(w, a.configName, "docker", FALSE)]

\* get config()
Config(a, w) ==
  [serverName |-> a._config.serverName,
   active |-> a._config.active,
   apiVersion |-> WsGet(w, a.configName, "apiVersion", DEFAULT_API_VERSION),
   host |-> IF a.externalServer THEN a._config.host
            ELSE WsGet(w, a.configName, "host", a._config.host),
   port |-> IF a.externalServer THEN a._config.port
            ELSE WsGet(w, a.configName, "port", a._config.port),
   ns |-> OrStr(a.namespace, a._config.ns),
   username |-> a._config.username,
   password |-> WsGet(w, a.configName, "password", a._config.password),
   docker |-> WsGet(w, a.configName, "docker", FALSE)]

\* get active()
Active(a, w) ==
  LET c == Config(a, w)
      host == IF c.host = Undef THEN "" ELSE c.host
      port == IF c.port = NoNum THEN 0 ELSE c.port
  IN  a._config.active /\ host # "" /\ port > 0

\* get connInfo(): the host and port shown (or the docker marker) and [NS]
ConnInfo(a, w) ==
  LET c == Config(a, w)
  IN  [where |-> IF c.docker THEN <<"docker">> ELSE <<c.host, c.port>>,
       ns |-> Ns(a)]

----------------------------------------------------------------------------
(* The session cookie cache *)

\* The index of the first "=" of a cookie, 0 when it has none
FirstEq(cookie) ==
  IF \E i \in 1..Len(cookie) : cookie[i] = "="
  THEN CHOOSE i \in 1..Len(cookie) :
         /\ cookie[i] = "="
         /\ \A j \in 1..(i - 1) : cookie[j] # "="
  ELSE 0

\* const [cookieName] = cookie.split("=")
CookieName(cookie) ==
  IF FirstEq(cookie) = 0 THEN cookie ELSE SubSeq(cookie, 1, FirstEq(cookie) - 1)

\* el.startsWith(prefix)
StartsWith(el, prefix) ==
  /\ Len(prefix) <= Len(el)
  /\ SubSeq(el, 1, Len(prefix)) = prefix

\* The test updateCookies hands to findIndex
CookieMatches(el, cookieName) == StartsWith(el, cookieName)

\* cookies.findIndex((el) => el.startsWith(cookieName)), 0 for JavaScript's -1
FindIndex(cookies, cookieName) ==
  IF \E i \in 1..Len(cookies) : CookieMatches(cookies[i], cookieName)
  THEN CHOOSE i \in 1..Len(cookies) :
         /\ CookieMatches(cookies[i], cookieName)
         /\ \A j \in 1..(i - 1) : ~CookieMatches(cookies[j], cookieName)
  ELSE 0

\* One turn of the forEach with the search left out: every cookie is pushed
MergeCookiePushes(cookies, cookie) == Append(cookies, cookie)

\* One turn of the forEach of updateCookies
MergeCookie(cookies, cookie) ==
  LET index == FindIndex(cookies, CookieName(cookie))
  IN  IF index > 0
      THEN [cookies EXCEPT ![index] = cookie]
      ELSE Append(cookies, cookie)

\* updateCookies(newCookies): the array that cache.put stores
RECURSIVE UpdateCookies(_, _)
UpdateCookies(cookies, newCookies) ==
  IF newCookies = <<>> THEN cookies
  ELSE UpdateCookies(MergeCookie(cookies, Head(newCookies)), Tail(newCookies))

\* get cache(): the key of the Cache of a connection, API:host:port
CacheKey(a, w) == <<Config(a, w).host, Config(a, w).port>>

----------------------------------------------------------------------------
(* The request pipeline: values *)

\* The most requests of callers in flight at once
MaxCallers == 2
\* The most handshakes (HEAD probes of the coordinator) in flight at once
MaxHandshakes == 2
\* The most 1 s reconnection checks scheduled and not yet fired
MaxChecks == 2

\* The methods callers pass to request(); HEAD is the coordinator's probe
CallerMethods == {"GET"}
\* The minVersion arguments of the endpoint wrappers
MinVersions == {0, 1, 2}
\* The statuses a server answers with: 2xx, 401, and another non-2xx
Statuses == {200, 401, 500}
\* response.statusText
StatusText(status) ==
  CASE status = 200 -> "OK"
    [] status = 401 -> "Unauthorized"
    [] status = 500 -> "Internal Server Error"
    [] OTHER -> ""
\* response.ok
Ok(status) == status >= 200 /\ status <= 299

\* The cookie the server sets, as characters
SessionCookie == <<"s", "=", "1">>
\* response.headers.raw()["set-cookie"] || []
SetCookieHeaders == {<<>>, <<SessionCookie>>}
\* error.code of a failed fetch
ErrorCodes == {"ECONNREFUSED", "ETIMEDOUT"}
\* The envelope fields the classification reads: data.result.status ...
EnvelopeTexts == {"", "failed"}
\* ... and data.status.summary
SummaryTexts == {"", "summary"}

\* What a request settles with: a resolution or a rejection and its value
Outcome(res, kind, statusCode, message, code, version, cookies) ==
  [res |-> res, kind |-> kind, statusCode |-> statusCode, message |-> message,
   code |-> code, version |-> version, cookies |-> cookies]

\* Promise.reject()
RejectUndefined == Outcome("reject", "undefined", NoNum, "", Undef, NoNum, <<>>)
\* Promise.reject(`${path} not supported by API version ${apiVersion}`)
RejectUnsupported(apiVersion) ==
  Outcome("reject", "string", NoNum, "not supported by API version", Undef,
          apiVersion, <<>>)
\* throw { statusCode: response.status, message: response.statusText }
RejectHttp(status) ==
  Outcome("reject", "http", status, StatusText(status), Undef, NoNum, <<>>)
\* The rejection of fetch: an error object with a code
RejectTransport(code) ==
  Outcome("reject", "transport", NoNum, "request failed", code, NoNum, <<>>)
\* throw new Error(message)
RejectError(message) ==
  Outcome("reject", "Error", NoNum, message, Undef, NoNum, <<>>)
\* return this.cookies
ResolveCookies(cookies) ==
  Outcome("resolve", "cookies", NoNum, "", Undef, NoNum, cookies)
\* return data
ResolveEnvelope ==
  Outcome("resolve", "envelope", NoNum, "", Undef, NoNum, <<>>)
NoOutcome == Outcome("none", "", NoNum, "", Undef, NoNum, <<>>)

\* authRequestMap values: no entry, a handshake in flight, a rejected promise
NoAuth == [state |-> "none", h |-> 0, out |-> NoOutcome]
PendingAuth(h) == [state |-> "pending", h |-> h, out |-> NoOutcome]
RejectedAuth(out) == [state |-> "rejected", h |-> 0, out |-> out]

\* The settings of the workspace folder: config("conn", "proj"); they name no
\* apiVersion and no docker
Conn(active, ns, server, host, port) ==
  [active |-> active, ns |-> ns, server |-> server, host |-> host,
   port |-> port, username |-> "u", password |-> "p",
   apiVersion |-> NoNum, docker |-> <<>>]

\* The instances the pipeline is driven with: the active workspace-local
\* connection, with and without the constructor argument kept for the check
\* after a 401
PipelineApis ==
  { Constructor(w, retryAfter401, Conn(TRUE, "user", Undef, "h1", 1)) :
      w \in {NoWsOrFile, WsString("proj")}, retryAfter401 \in BOOLEAN }

\* The minVersion of the wrappers the pipeline is driven with
PipelineVersions == {1}

\* The host and port a runtime override redirects the connection to
OverrideHost == "h2"
OverridePort == 2

Identities == {<<"h1", 1>>, <<OverrideHost, OverridePort>>}
Targets == {<<"u", i[1], i[2]>> : i \in Identities}

\* An instance on which no request is made: where the pipeline is studied, the
\* instance under study is this one
NoApi == Constructor(NoWsOrFile, FALSE, Conn(FALSE, "", Undef, "", 0))

\* A request in flight: id is the number of the promise of a handshake (0 for
\* a caller's request), pc the await it is suspended at ("auth": the
\* handshake in auth, "fetch": the network call, "put": the cache's put)
Request(id, pc, method, a, target, auth, basic, cookie) ==
  [id |-> id, pc |-> pc, method |-> method, a |-> a, target |-> target,
   auth |-> auth, basic |-> basic, cookie |-> cookie, status |-> 0]

\* What happened to requests in the last step: the step, the request, how
\* many requests like it it happened to, the status and Set-Cookie headers of
\* the response received (NoNum when none), the line written to the output
\* channel and what the request settled with (NoOutcome while it still runs)
Event(step, r, copies, minVersion, status, setCookie, appended, out) ==
  [step |-> step, id |-> r.id, method |-> r.method, a |-> r.a,
   target |-> r.target, waited |-> r.pc # "new" /\ ~r.basic, copies |-> copies,
   minVersion |-> minVersion, status |-> status, setCookie |-> setCookie,
   resultStatus |-> "", summary |-> "", appended |-> appended, out |-> out]

----------------------------------------------------------------------------
(* The request pipeline: request() up to its first await *)

InFlight == BagToSet(req)
Handshakes == {r \in InFlight : r.id # 0}
Callers == BagCardinality(req) - Cardinality(Handshakes)
FreeIds == (1..MaxHandshakes) \ {r.id : r \in Handshakes}
Lowest(S) == CHOOSE s \in S : \A t \in S : s <= t

Add(b, r) == b (+) SetToBag({r})
Remove(b, r) == b (-) SetToBag({r})

\* The head of request() with the test of the connection's active flag left out
PrecheckIgnoresActive(c, minVersion) ==
  IF ~TruthyNum(c.port) \/ ~TruthyStr(c.host) THEN "inactive"
  ELSE IF minVersion > c.apiVersion THEN "unsupported"
  ELSE "ok"

\* The head of request() with the test of minVersion left out
PrecheckSkipsVersion(c, minVersion) ==
  IF ~c.active \/ ~TruthyNum(c.port) \/ ~TruthyStr(c.host) THEN "inactive"
  ELSE "ok"

\* The two fast failures at the head of request()
Precheck(c, minVersion) ==
  IF ~c.active \/ ~TruthyNum(c.port) \/ ~TruthyStr(c.host) THEN "inactive"
  ELSE IF minVersion > c.apiVersion THEN "unsupported"
  ELSE "ok"

\* const target = `${username}@${host}:${port}`
Target(c) == <<c.username, c.host, c.port>>

\* The branch request() takes to authenticate: with the cookies it holds (and
\* Basic authorization), or behind the handshake of its target
AuthBranch(cookies, method) ==
  IF Len(cookies) > 0 \/ method = "HEAD" THEN "own" ELSE "handshake"

\* A request that calls fetch with the cookies it read and Basic authorization
Sending(id, a, method, target, cookies) ==
  Request(id, "fetch", method, a, target, 0, TRUE, cookies)

\* A request suspended at `await auth` on the handshake with promise h
Awaiting(a, method, target, h) ==
  Request(0, "auth", method, a, target, h, FALSE, <<>>)

\* authRequestMap.delete(target)
MapDelete(m, target) == [m EXCEPT ![target] = NoAuth]

\* The catch block with the two workspaceState updates left out
CatchRefusedKeepsOverrides(r, st) ==
  [m |-> MapDelete(st.m, r.target),
   p |-> [text |-> <<ConnInfo(r.a, st.w), "$(debug-disconnect)">>,
          tooltip |-> "Disconnected"],
   w |-> st.w,
   k |-> st.k,
   t |-> Append(st.t, 30000)]

\* The catch block of request() for error.code === "ECONNREFUSED", run by
\* request r on the shared state st: the map, the panel, workspaceState, the
\* pending 1 s checks and the setTimeout calls of the step
CatchRefused(r, st) ==
  [m |-> MapDelete(st.m, r.target),
   p |-> [text |-> <<ConnInfo(r.a, st.w), "$(debug-disconnect)">>,
          tooltip |-> "Disconnected"],
   w |-> WsUpdate(WsUpdate(st.w, r.a.configName, "host", <<>>),
                  r.a.configName, "port", <<>>),
   k |-> st.k,
   t |-> Append(st.t, 30000)]

\* A catch block that schedules a 1 s check for any other error
CatchChecksAgain(r, code, st) ==
  IF code = "ECONNREFUSED" THEN CatchRefused(r, st)
  ELSE [st EXCEPT !.k = @ + 1, !.t = Append(@, 1000)]

\* The catch block of request(): its side effects for an error with this code
Catch(r, code, st) == IF code = "ECONNREFUSED" THEN CatchRefused(r, st) ELSE st

\* The shared state as the catch blocks read and write it
Shared ==
  [m |-> authRequestMap, p |-> panel, w |-> ws, k |-> checks, t |-> <<>>]

\* request(minVersion, method, ...) as called on the instance under study: what
\* probe holds after the step of a call; a call on another instance leaves <<>>
Observe(a, minVersion, method) ==
  IF a = api THEN <<[minVersion |-> minVersion, method |-> method]>> ELSE <<>>

\* The precondition failures: nothing is sent and nothing is registered
RequestRejected(a, minVersion, method) ==
  LET c == Config(a, ws)
      r == Request(0, "new", method, a, <<>>, 0, FALSE, <<>>)
      out == IF Precheck(c, minVersion) = "inactive"
             THEN RejectUndefined
             ELSE RejectUnsupported(c.apiVersion)
  IN  /\ Precheck(c, minVersion) # "ok"
      /\ last' = {Event("precheck", r, 1, minVersion, NoNum, <<>>, "", out)}
      /\ timers' = <<>>
      /\ probe' = Observe(a, minVersion, method)
      /\ UNCHANGED <<ws, cache, authRequestMap, req, panel, checks, api>>

\* A request that holds cookies: it sends them at once
RequestWithCookies(a, minVersion, method) ==
  LET c == Config(a, ws)
      cookies == cache[CacheKey(a, ws)]
  IN  /\ Precheck(c, minVersion) = "ok"
      /\ AuthBranch(cookies, method) = "own"
      /\ Callers < MaxCallers
      /\ req' = Add(req, Sending(0, a, method, Target(c), cookies))
      /\ last' = {}
      /\ timers' = <<>>
      /\ probe' = Observe(a, minVersion, method)
      /\ UNCHANGED <<ws, cache, authRequestMap, panel, checks, api>>

\* A request without cookies and without a registered handshake: it starts the
\* HEAD probe, this.request(0, "HEAD"), registers it and awaits it
RequestStartsHandshake(a, minVersion, method) ==
  LET c == Config(a, ws)
      cookies == cache[CacheKey(a, ws)]
      target == Target(c)
      h == Lowest(FreeIds)
  IN  /\ Precheck(c, minVersion) = "ok"
      /\ AuthBranch(cookies, method) = "handshake"
      /\ authRequestMap[target].state = "none"
      /\ Callers < MaxCallers
      /\ FreeIds # {}
      /\ Precheck(c, 0) = "ok"
      /\ AuthBranch(cookies, "HEAD") = "own"
      /\ req' = Add(Add(req, Sending(h, a, "HEAD", target, cookies)),
                    Awaiting(a, method, target, h))
      /\ authRequestMap' = [authRequestMap EXCEPT ![target] = PendingAuth(h)]
      /\ last' = {}
      /\ timers' = <<>>
      /\ probe' = Observe(a, minVersion, method)
      /\ UNCHANGED <<ws, cache, panel, checks, api>>

\* A request without cookies that finds a handshake in flight: it awaits it
RequestJoinsHandshake(a, minVersion, method) ==
  LET c == Config(a, ws)
      cookies == cache[CacheKey(a, ws)]
      target == Target(c)
  IN  /\ Precheck(c, minVersion) = "ok"
      /\ AuthBranch(cookies, method) = "handshake"
      /\ authRequestMap[target].state = "pending"
      /\ Callers < MaxCallers
      /\ req' = Add(req, Awaiting(a, method, target, authRequestMap[target].h))
      /\ last' = {}
      /\ timers' = <<>>
      /\ probe' = Observe(a, minVersion, method)
      /\ UNCHANGED <<ws, cache, authRequestMap, panel, checks, api>>

\* A request without cookies that finds a rejected promise registered: its
\* `await auth` throws that rejection into the catch block
RequestFindsRejected(a, minVersion, method) ==
  LET c == Config(a, ws)
      cookies == cache[CacheKey(a, ws)]
      target == Target(c)
      out == authRequestMap[target].out
      r == Awaiting(a, method, target, 0)
      st == Catch(r, out.code, Shared)
  IN  /\ Precheck(c, minVersion) = "ok"
      /\ AuthBranch(cookies, method) = "handshake"
      /\ authRequestMap[target].state = "rejected"
      /\ authRequestMap' = st.m
      /\ panel' = st.p
      /\ ws' = st.w
      /\ checks' = st.k
      /\ timers' = st.t
      /\ last' = {Event("await", r, 1, minVersion, NoNum, <<>>, "", out)}
      /\ probe' = Observe(a, minVersion, method)
      /\ UNCHANGED <<cache, req, api>>

----------------------------------------------------------------------------
(* The request pipeline: the response, the catch block, the waiters *)

\* The requests suspended at `await auth` on the promise of request r
Waiters(r) ==
  IF r.id = 0 THEN {}
  ELSE {w \in InFlight : w.pc = "auth" /\ w.auth = r.id}

\* The requests in flight in S, with their multiplicity
BagOf(S) == [w \in S |-> req[w]]

\* The catch blocks of the requests of bag b, run one after the other
RECURSIVE CatchEach(_, _, _)
CatchEach(b, code, st) ==
  IF DOMAIN b = {} THEN st
  ELSE LET w == CHOOSE x \in DOMAIN b : TRUE
       IN  CatchEach(b (-) SetToBag({w}), code, Catch(w, code, st))

\* A promise that rejects stays registered, rejected, where nothing deleted it
KeepRejected(m, id, out) ==
  [t \in Targets |->
     IF id # 0 /\ m[t] = PendingAuth(id) THEN RejectedAuth(out) ELSE m[t]]

\* Request r rejects with out, having left the shared state st; when it is a
\* handshake, the requests awaiting it are thrown the same rejection into
\* their catch blocks, one like lw last
Rejects(step, r, status, setCookie, out, st, lw) ==
  LET W == Waiters(r)
      kept == [st EXCEPT !.m = KeepRejected(st.m, r.id, out)]
      end == IF W = {} THEN kept
             ELSE Catch(lw, out.code,
                        CatchEach(BagOf(W) (-) SetToBag({lw}), out.code, kept))
  IN  /\ IF W = {} THEN lw = r ELSE lw \in W
      /\ end.k <= MaxChecks
      /\ authRequestMap' = end.m
      /\ panel' = end.p
      /\ ws' = end.w
      /\ checks' = end.k
      /\ timers' = end.t
      /\ req' = Remove(req, r) (-) BagOf(W)
      /\ last' = {Event(step, r, 1, NoNum, status, setCookie, "", out)}
                 \cup {Event("await", w, req[w], NoNum, NoNum, <<>>, "", out) :
                         w \in W}
      /\ UNCHANGED <<cache, api, probe>>

\* The 401 branch with authRequestMap.delete(target) left out
On401KeepsEntry(r, st) ==
  [st EXCEPT !.k = IF TruthyWsOrFile(r.a.wsOrFile) THEN @ + 1 ELSE @,
             !.t = IF TruthyWsOrFile(r.a.wsOrFile) THEN Append(@, 1000) ELSE @]

\* if (response.status === 401) { ... } up to the throw
On401(r, st) ==
  [st EXCEPT !.m = MapDelete(st.m, r.target),
             !.k = IF TruthyWsOrFile(r.a.wsOrFile) THEN @ + 1 ELSE @,
             !.t = IF TruthyWsOrFile(r.a.wsOrFile) THEN Append(@, 1000) ELSE @]

\* fetch resolves with a 401 response
Response401(r, setCookie, lw) ==
  /\ r.pc = "fetch"
  /\ Rejects("response", r, 401, setCookie, RejectHttp(401),
             Catch(r, Undef, On401(r, Shared)), lw)

\* fetch rejects: the catch block, then the rethrow
FetchFails(r, code, lw) ==
  /\ r.pc = "fetch"
  /\ Rejects("error", r, NoNum, <<>>, RejectTransport(code),
             Catch(r, code, Shared), lw)

\* A response whose Set-Cookie headers are dropped
MergedDropsHeaders(cookies, setCookie) == cookies

\* The cookies a response leaves in the cache: await this.updateCookies(...)
Merged(cookies, setCookie) == UpdateCookies(cookies, setCookie)

\* fetch resolves for the handshake with a response other than 401: the
\* Set-Cookie headers are merged and the request suspends on the cache's put
HeadResponds(r, status, setCookie) ==
  /\ r.pc = "fetch"
  /\ r.method = "HEAD"
  /\ status # 401
  /\ cache' = [cache EXCEPT ![CacheKey(r.a, ws)] = Merged(@, setCookie)]
  /\ req' = Add(Remove(req, r), [r EXCEPT !.pc = "put", !.status = status])
  /\ last' = {Event("response", r, 1, NoNum, status, setCookie, "", NoOutcome)}
  /\ timers' = <<>>
  /\ UNCHANGED <<ws, authRequestMap, panel, checks, api, probe>>

\* panel.text = `${this.connInfo}`; panel.tooltip = `Connected ... as ...`
Connected(r) ==
  [text |-> <<ConnInfo(r.a, ws), "">>, tooltip |-> "Connected as u"]

\* The requests of bag b once the handshake they await has resolved with
\* cookies: they call fetch with them, and with no Authorization header
RECURSIVE Resumed(_, _)
Resumed(b, cookies) ==
  IF DOMAIN b = {} THEN EmptyBag
  ELSE LET w == CHOOSE x \in DOMAIN b : TRUE
           rest == [x \in DOMAIN b \ {w} |-> b[x]]
       IN  Resumed(rest, cookies)
             (+) [x \in {[w EXCEPT !.pc = "fetch", !.auth = 0,
                                     !.cookie = cookies]} |-> b[w]]

\* The put is done, the request is the handshake: it clears the entry of its
\* target and returns the cookies now in the cache
HeadReturns(r) ==
  LET cookies == cache[CacheKey(r.a, ws)]
      W == BagOf(Waiters(r))
  IN  /\ r.pc = "put"
      /\ r.method = "HEAD"
      /\ panel' = Connected(r)
      /\ authRequestMap' = MapDelete(authRequestMap, r.target)
      /\ req' = (Remove(req, r) (-) W) (+) Resumed(W, cookies)
      /\ last' = {Event("put", r, 1, NoNum, r.status, <<>>, "",
                        ResolveCookies(cookies))}
      /\ timers' = <<>>
      /\ UNCHANGED <<ws, cache, checks, api, probe>>

\* fetch resolves for a caller's request with a response that is neither 401
\* nor 2xx: the Set-Cookie headers are merged, and once the put is done the
\* panel is set and { statusCode, message } is thrown.  After the put such a
\* request reads and writes no state that another request reads, so the model
\* takes the response and what follows the put as one step.
NotOkThrows(r, status, setCookie) ==
  /\ r.pc = "fetch"
  /\ r.method # "HEAD"
  /\ status # 401
  /\ ~Ok(status)
  /\ cache' = [cache EXCEPT ![CacheKey(r.a, ws)] = Merged(@, setCookie)]
  /\ panel' = Connected(r)
  /\ req' = Remove(req, r)
  /\ last' = {Event("response", r, 1, NoNum, status, setCookie, "",
                    RejectHttp(status))}
  /\ timers' = <<>>
  /\ UNCHANGED <<ws, authRequestMap, checks, api, probe>>

\* The classification with status.summary tested first
ClassifySummaryFirst(resultStatus, summary) ==
  IF summary # ""
  THEN [appended |-> "", out |-> RejectError(summary)]
  ELSE IF resultStatus # ""
       THEN [appended |-> resultStatus, out |-> RejectError(resultStatus)]
       ELSE [appended |-> "", out |-> ResolveEnvelope]

\* The classification of a parsed envelope: what is written to the output
\* channel and what the request settles with
Classify(resultStatus, summary) ==
  IF resultStatus # ""
  THEN [appended |-> resultStatus, out |-> RejectError(resultStatus)]
  ELSE IF summary # ""
       THEN [appended |-> "", out |-> RejectError(summary)]
       ELSE IF resultStatus # ""
            THEN [appended |-> "", out |-> RejectError(resultStatus)]
            ELSE [appended |-> "", out |-> ResolveEnvelope]

\* fetch resolves for a caller's request with a 2xx response: the Set-Cookie
\* headers are merged, the panel is set, the body is read, parsed and
\* classified (one step, as for NotOkThrows)
BodyParsed(r, status, setCookie, resultStatus, summary) ==
  LET c == Classify(resultStatus, summary)
  IN  /\ r.pc = "fetch"
      /\ r.method # "HEAD"
      /\ Ok(status)
      /\ cache' = [cache EXCEPT ![CacheKey(r.a, ws)] = Merged(@, setCookie)]
      /\ panel' = Connected(r)
      /\ req' = Remove(req, r)
      /\ last' = {[Event("response", r, 1, NoNum, status, setCookie,
                         c.appended, c.out)
                     EXCEPT !.resultStatus = resultStatus,
                            !.summary = summary]}
      /\ timers' = <<>>
      /\ UNCHANGED <<ws, authRequestMap, checks, api, probe>>

----------------------------------------------------------------------------
(* The environment of the pipeline *)

\* clearCookies()
ClearCookies(a) ==
  /\ cache' = [cache EXCEPT ![CacheKey(a, ws)] = <<>>]
  /\ last' = {}
  /\ timers' = <<>>
  /\ UNCHANGED <<ws, authRequestMap, req, panel, checks, api, probe>>

\* The instance whose clearCookies() the environment calls
CookieApi == CHOOSE a \in PipelineApis : TRUE

\* workspaceState outlives the session: a run starts with the host and port
\* the extension learned earlier stored under configName:host and
\* configName:port, or without them
Learned ==
  WsUpdate(WsUpdate(WsEmpty, CurrentWorkspaceFolder, "host", <<OverrideHost>>),
           CurrentWorkspaceFolder, "port", <<OverridePort>>)

\* A scheduled 1 s reconnection check fires: setTimeout's callback runs
\* checkConnection, whose requests are those of the actions above
CheckFires ==
  /\ checks > 0
  /\ checks' = checks - 1
  /\ last' = {}
  /\ timers' = <<>>
  /\ UNCHANGED <<ws, cache, authRequestMap, req, panel, api, probe>>

----------------------------------------------------------------------------
(* The pipeline's specification *)

CacheKeys == Identities

Init ==
  /\ ws \in {WsEmpty, Learned}
  /\ cache = [k \in CacheKeys |-> <<>>]
  /\ authRequestMap = [t \in Targets |-> NoAuth]
  /\ req = EmptyBag
  /\ panel = [text |-> <<>>, tooltip |-> ""]
  /\ checks = 0
  /\ timers = <<>>
  /\ last = {}
  /\ api = NoApi
  /\ probe = <<>>

Next ==
  \/ \E a \in PipelineApis, v \in PipelineVersions, m \in CallerMethods :
       \/ RequestWithCookies(a, v, m)
       \/ RequestStartsHandshake(a, v, m)
       \/ RequestJoinsHandshake(a, v, m)
       \/ RequestFindsRejected(a, v, m)
  \/ \E r \in InFlight, sc \in SetCookieHeaders, lw \in InFlight :
       Response401(r, sc, lw)
  \/ \E r \in InFlight, code \in ErrorCodes, lw \in InFlight :
       FetchFails(r, code, lw)
  \/ \E r \in InFlight, status \in Statuses, sc \in SetCookieHeaders :
       \/ HeadResponds(r, status, sc)
       \/ NotOkThrows(r, status, sc)
       \/ \E rs \in EnvelopeTexts, ss \in SummaryTexts :
            BodyParsed(r, status, sc, rs, ss)
  \/ \E r \in InFlight : HeadReturns(r)
  \/ ClearCookies(CookieApi)
  \/ CheckFires

Spec == Init /\ [][Next]_vars

----------------------------------------------------------------------------
(* The session cookie cache on its own: updateCookies and clearCookies *)

\* The longest newCookies array handed to updateCookies
MaxNew == 2

\* The Set-Cookie strings a server sends: two values of one name, a name that
\* extends it, and an unrelated name
CookieStrings ==
  { <<"a", "=", "1">>, <<"a", "=", "2">>, <<"a", "b", "=", "1">>,
    <<"b", "=", "1">> }

\* The arrays updateCookies is called with
NewCookies == UNION {[1..n -> CookieStrings] : n \in 0..MaxNew}

\* updateCookies(newCookies), up to the put it returns the promise of
UpdateCookiesCall(a, newCookies) ==
  LET r == Request(0, "new", "", a, <<>>, 0, FALSE, <<>>)
  IN  /\ cache' = [cache EXCEPT
                     ![CacheKey(a, ws)] = UpdateCookies(@, newCookies)]
      /\ last' = {Event("updateCookies", r, 1, NoNum, NoNum, newCookies, "",
                        NoOutcome)}
      /\ timers' = <<>>
      /\ UNCHANGED <<ws, authRequestMap, req, panel, checks, api, probe>>

InitCookies ==
  /\ ws = WsEmpty
  /\ cache = [k \in CacheKeys |-> <<>>]
  /\ authRequestMap = [t \in Targets |-> NoAuth]
  /\ req = EmptyBag
  /\ panel = [text |-> <<>>, tooltip |-> ""]
  /\ checks = 0
  /\ timers = <<>>
  /\ last = {}
  /\ api = NoApi
  /\ probe = <<>>

NextCookies ==
  \/ \E newCookies \in NewCookies : UpdateCookiesCall(CookieApi, newCookies)
  \/ ClearCookies(CookieApi)

SpecCookies == InitCookies /\ [][NextCookies]_vars

\* The merge by cookie name that C6 describes: the index of the stored cookie
\* with exactly this name, 0 when there is none
C6_IndexOfName(cookies, name) ==
  IF \E i \in 1..Len(cookies) : CookieName(cookies[i]) = name
  THEN CHOOSE i \in 1..Len(cookies) :
         /\ CookieName(cookies[i]) = name
         /\ \A j \in 1..(i - 1) : CookieName(cookies[j]) # name
  ELSE 0

\* ... and the array it leaves: replaced in place, or appended
RECURSIVE C6_MergeByName(_, _)
C6_MergeByName(cookies, newCookies) ==
  IF newCookies = <<>> THEN cookies
  ELSE LET cookie == Head(newCookies)
           index == C6_IndexOfName(cookies, CookieName(cookie))
       IN  C6_MergeByName(IF index > 0
                          THEN [cookies EXCEPT ![index] = cookie]
                          ELSE Append(cookies, cookie),
                          Tail(newCookies))

\* C6: updateCookies replaces the stored cookie that has exactly the name of
\* the new one, appends the new one when no stored cookie has that name, and
\* leaves every other stored cookie and the order as they were
C6_MergedByName ==
  [][\A e \in last' :
       e.step = "updateCookies" =>
         cache'[CacheKey(e.a, ws)] =
           C6_MergeByName(cache[CacheKey(e.a, ws)], e.setCookie)]_vars

\* C7: a call of updateCookies that follows a call with the same newCookies
\* leaves the cache as the first call left it
C7_SecondCallChangesNothing ==
  [][(last' = last /\ \E e \in last : e.step = "updateCookies")
       => cache' = cache]_vars

\* C16: from an empty cache, after any calls of updateCookies and
\* clearCookies, no two cookies stored for a connection have the same name
C16_UniqueNames ==
  \A k \in CacheKeys :
    \A i, j \in 1..Len(cache[k]) :
      i # j => CookieName(cache[k][i]) # CookieName(cache[k][j])

\* C16 witness: updateCookies was called with a=1 and a=2 in one array on a
\* cache that held a cookie named a and one named ab, and left a=2 and ab=1
C16_TwoOfOneNameMerged ==
  /\ \E e \in last :
       /\ e.step = "updateCookies"
       /\ e.setCookie = << <<"a", "=", "1">>, <<"a", "=", "2">> >>
  /\ cache[CacheKey(CookieApi, ws)]
       = << <<"a", "=", "2">>, <<"a", "b", "=", "1">> >>

----------------------------------------------------------------------------
(* The connection settings: construction, and the head of request() *)

\* The constructor's argument: nothing, the name of a registered server, an
\* isfs Uri of that server with and without ?ns=, a file Uri
StartWsOrFiles ==
  { NoWsOrFile, WsString("Srv"), WsUri("isfs", "srv", "user"),
    WsUri("isfs", "srv", ""), WsUri("file", "", "") }

\* The settings found for the folder, config("conn", workspaceFolderName): ns
\* and server may be missing, host may be empty and port 0
StartConns ==
  { Conn(active, ns, server, host, port) :
      active \in BOOLEAN, ns \in {"user", "", Undef}, server \in {Undef, "srv"},
      host \in {"h1", ""}, port \in {1, 0} }

\* The namespaces setNamespace is called with
StartNamespaces == {"user"}

\* The API versions serverInfo learns from a server
LearnedVersions == {1, 2}

\* new AtelierAPI(wsOrFile): the instances under study
StartApis ==
  {Constructor(w, TRUE, conn) : w \in StartWsOrFiles, conn \in StartConns}

\* api.setNamespace(namespace)
CallSetNamespace(namespace) ==
  /\ api' = SetNamespace(api, namespace)
  /\ last' = {}
  /\ timers' = <<>>
  /\ probe' = <<>>
  /\ UNCHANGED <<ws, cache, authRequestMap, req, panel, checks>>

\* workspaceState.update(this.configName + ":apiVersion", apiVersion), the
\* version serverInfo() learned
StoreApiVersion(apiVersion) ==
  /\ ws' = WsUpdate(ws, api.configName, "apiVersion", <<apiVersion>>)
  /\ last' = {}
  /\ timers' = <<>>
  /\ probe' = <<>>
  /\ UNCHANGED <<cache, authRequestMap, req, panel, checks, api>>

\* The state after construction.  workspaceState and the cookie cache outlive
\* the session: a run starts with or without a learned host and port, with or
\* without a session cookie
InitStart ==
  /\ ws \in {WsEmpty, Learned}
  /\ cache \in { [k \in CacheKeys |-> <<>>],
                 [k \in CacheKeys |->
                    IF k = <<"h1", 1>> THEN <<SessionCookie>> ELSE <<>>] }
  /\ authRequestMap = [t \in Targets |-> NoAuth]
  /\ req = EmptyBag
  /\ panel = [text |-> <<>>, tooltip |-> ""]
  /\ checks = 0
  /\ timers = <<>>
  /\ last = {}
  /\ api \in StartApis
  /\ probe = <<>>

NextStart ==
  \/ \E namespace \in StartNamespaces : CallSetNamespace(namespace)
  \/ \E apiVersion \in LearnedVersions : StoreApiVersion(apiVersion)
  \/ \E v \in MinVersions, m \in CallerMethods :
       \/ RequestRejected(api, v, m)
       \/ RequestWithCookies(api, v, m)
       \/ RequestStartsHandshake(api, v, m)
       \/ RequestJoinsHandshake(api, v, m)

SpecStart == InitStart /\ [][NextStart]_vars

\* The connection a call of request() reads: active, with a host and a port
Usable(c) == c.active /\ TruthyNum(c.port) /\ TruthyStr(c.host)

\* A call of request() that sends nothing: no request is in flight that was
\* not before, and no entry is registered
NothingSent == req' = req /\ authRequestMap' = authRequestMap

\* C8 (as stated): a call whose minVersion exceeds the apiVersion of the
\* connection rejects with the 'not supported by API version' message, sends
\* nothing and starts no handshake
C8_AboveVersionRejects ==
  [][(probe' # <<>> /\ probe'[1].minVersion > Config(api, ws).apiVersion)
       => /\ last' = {e \in last' :
                        e.out = RejectUnsupported(Config(api, ws).apiVersion)}
          /\ last' # {}
          /\ NothingSent]_vars

\* C8 (amended): on a connection that is active and has a host and a port, a
\* call whose minVersion exceeds the apiVersion rejects with the 'not supported
\* by API version' message; on any other connection it rejects with no value;
\* either way it sends nothing and starts no handshake
C8_AboveVersionRejectsWhenUsable ==
  [][(probe' # <<>> /\ probe'[1].minVersion > Config(api, ws).apiVersion)
       => /\ last' = {e \in last' :
                        e.out = IF Usable(Config(api, ws))
                                THEN RejectUnsupported(Config(api, ws).apiVersion)
                                ELSE RejectUndefined}
          /\ last' # {}
          /\ NothingSent]_vars

\* C8 witness: request(2, ...) was called on a usable connection whose
\* apiVersion is 1 and rejected with the message
C8_TwoAgainstOne ==
  /\ probe # <<>>
  /\ probe[1].minVersion = 2
  /\ Usable(Config(api, ws))
  /\ Config(api, ws).apiVersion = 1
  /\ \E e \in last : e.out = RejectUnsupported(1)

\* C9: a call on a connection that is inactive, or has no host or no port,
\* rejects with no value, sends nothing, registers nothing, and leaves the
\* cookie cache and the panel as they were
C9_UnusableRejectsUntouched ==
  [][(probe' # <<>> /\ ~Usable(Config(api, ws)))
       => /\ last' = {e \in last' : e.out = RejectUndefined}
          /\ last' # {}
          /\ NothingSent
          /\ timers' = <<>>
          /\ UNCHANGED <<cache, panel, ws, checks>>]_vars

\* C9 witness: a call on a connection marked active whose port is 0 rejected
\* with no value
C9_ActiveWithoutPort ==
  /\ probe # <<>>
  /\ api._config.active
  /\ TruthyStr(Config(api, ws).host)
  /\ ~TruthyNum(Config(api, ws).port)
  /\ \E e \in last : e.out = RejectUndefined

\* C10: a connection of a registered server for which no namespace is
\* determined, explicit or configured, empty or missing, is inactive, and no
\* request of such a connection is in flight
C10_NoNamespaceInactive ==
  /\ (api.externalServer /\ ~TruthyStr(Config(api, ws).ns))
       => ~Config(api, ws).active
  /\ \A r \in InFlight :
       r.a.externalServer => TruthyStr(Config(r.a, ws).ns)

----------------------------------------------------------------------------
(* The request pipeline: properties *)

\* C1: the requests that found no cookies for a target and started before its
\* handshake settled cause one HEAD probe: all the requests suspended at
\* `await auth` for one target await the same handshake
C1_OneHandshakeForWaiters ==
  \A r1, r2 \in InFlight :
    (r1.pc = "auth" /\ r2.pc = "auth" /\ r1.target = r2.target)
      => r1.auth = r2.auth

\* C2 (as stated): every request that receives a 401 removes the entry of its
\* target, schedules exactly one 1 s check and rejects with the status code and
\* the status text, so that n 401 responses schedule n checks
C2_Every401SchedulesCheck ==
  [][\A e \in last' :
       e.status = 401 =>
         /\ authRequestMap'[e.target] = NoAuth
         /\ e.out = RejectHttp(401)
         /\ checks' = checks + 1
         /\ timers' = <<1000>>]_vars

\* C2 (amended): a request that receives a 401 removes the entry of its target
\* and rejects with the status code and the status text; it schedules exactly
\* one 1 s check when its instance kept the workspace or file it was
\* constructed for, and none when it kept nothing
C2_401SchedulesCheckWithContext ==
  [][\A e \in last' :
       e.status = 401 =>
         /\ authRequestMap'[e.target] = NoAuth
         /\ e.out = RejectHttp(401)
         /\ IF TruthyWsOrFile(e.a.wsOrFile)
            THEN checks' = checks + 1 /\ timers' = <<1000>>
            ELSE checks' = checks /\ timers' = <<>>]_vars

\* C2 witness: a second 401 arrived before the check of the first fired
C2_SecondCheckScheduled ==
  /\ checks = 2
  /\ timers = <<1000>>
  /\ \E e \in last : e.status = 401 /\ e.out = RejectHttp(401)

\* C3: once a request has failed with ECONNREFUSED, the entry of its target is
\* gone, the panel shows disconnected, the host and port overrides of its
\* connection are cleared, a 30 s check is scheduled, and what it rejects with
\* is the error fetch rejected with
C3_RefusedCleansUp ==
  \A e \in last :
    e.out.code = "ECONNREFUSED" =>
      /\ authRequestMap[e.target] = NoAuth
      /\ panel.tooltip = "Disconnected"
      /\ panel.text[2] = "$(debug-disconnect)"
      /\ ws[e.a.configName]["host"] = <<>>
      /\ ws[e.a.configName]["port"] = <<>>
      /\ \E i \in 1..Len(timers) : timers[i] = 30000
      /\ e.out = RejectTransport("ECONNREFUSED")

\* C3 witness: a handshake to the learned host and port was refused while a
\* request awaited it
C3_RefusedWithOverrides ==
  \E e \in last :
    /\ e.out.code = "ECONNREFUSED"
    /\ e.waited
    /\ e.target = <<"u", OverrideHost, OverridePort>>

\* C4: whatever the method, a request whose response is neither 2xx nor 401
\* settles by rejecting with the status code and the status text of the response
C4_NonOkRejects ==
  \A e \in last :
    (e.status # NoNum /\ e.status # 401 /\ ~Ok(e.status) /\ e.out # NoOutcome)
      => e.out = RejectHttp(e.status)

\* C5 (as stated): the Set-Cookie headers of every response received, whatever
\* its status, are merged into the cache of the connection
C5_EveryResponseMerged ==
  [][\A e \in last' :
       e.step = "response" =>
         cache'[CacheKey(e.a, ws)] =
           UpdateCookies(cache[CacheKey(e.a, ws)], e.setCookie)]_vars

\* C5 (amended): the Set-Cookie headers of every response whose status is not
\* 401 are merged into the cache of the connection, and of that connection
\* only, in the step that receives it; a 401 response leaves the cache as it was
C5_Non401ResponseMerged ==
  [][\A e \in last' :
       e.step = "response" =>
         /\ cache'[CacheKey(e.a, ws)] =
              IF e.status = 401 THEN cache[CacheKey(e.a, ws)]
              ELSE UpdateCookies(cache[CacheKey(e.a, ws)], e.setCookie)
         /\ \A k \in CacheKeys \ {CacheKey(e.a, ws)} : cache'[k] = cache[k]]_vars

\* C5 witness: a response that is neither 2xx nor 401 set the session cookie
C5_ErrorResponseMerged ==
  \E e \in last :
    /\ e.step = "response"
    /\ e.status = 500
    /\ e.setCookie = <<SessionCookie>>
    /\ cache[CacheKey(e.a, ws)] = <<SessionCookie>>

\* C11: the outcome of a request whose 2xx response was parsed is decided by
\* result.status and status.summary: a non-empty result.status is written to
\* the output channel and is the rejection, whatever the summary; otherwise a
\* non-empty summary is the rejection; the envelope is returned exactly when
\* both are empty
C11_EnvelopeClassified ==
  \A e \in last :
    (e.step = "response" /\ e.method # "HEAD" /\ Ok(e.status)) =>
      IF e.resultStatus # ""
      THEN e.appended = e.resultStatus /\ e.out = RejectError(e.resultStatus)
      ELSE /\ e.appended = ""
           /\ IF e.summary # ""
              THEN e.out = RejectError(e.summary)
              ELSE e.out = ResolveEnvelope

\* C11 witness: an envelope with both fields set was rejected with
\* result.status
C11_StatusBeforeSummary ==
  \E e \in last :
    /\ e.step = "response"
    /\ e.resultStatus # ""
    /\ e.summary # ""
    /\ e.out = RejectError(e.resultStatus)
    /\ e.appended = e.resultStatus

\* C14: for every target, at most one HEAD probe started for a handshake is
\* on the network at any time
C14_OneProbePerTarget ==
  \A t \in Targets :
    Cardinality({r \in Handshakes : r.target = t /\ r.pc = "fetch"}) <= 1

\* C15: an entry of the pending-auth map refers to a handshake that is still
\* in flight; the promise of a handshake that settled, resolved or rejected, is
\* not in the map
C15_NoDanglingEntry ==
  \A t \in Targets :
    authRequestMap[t] # NoAuth
      => /\ authRequestMap[t].state = "pending"
         /\ \E r \in Handshakes : r.id = authRequestMap[t].h

\* C18: a request is thrown the rejection of a handshake only in the step in
\* which that handshake fails on the network, as one of the requests that
\* awaited it; a request that comes after a failed handshake is never answered
\* from the stored outcome of that handshake
C18_FailedHandshakeRetried ==
  [][\A e \in last' :
       e.step = "await" =>
         \E h \in last' : h.step \in {"response", "error"} /\ h.id # 0]_vars

\* C19: every request on the network carries credentials, a Basic
\* Authorization header or a Cookie header that is not empty
C19_SentWithCredentials ==
  \A r \in InFlight :
    r.pc = "fetch" => r.basic \/ Len(r.cookie) > 0

\* The requests suspended on the handshake whose rejection is event h
C20_Waiting(h) == {w \in InFlight : w.pc = "auth" /\ w.auth = h.id}

\* Every request that awaited the handshake of event h rejects with the error
\* of h in this step, and the step puts no request on the network
C20_WaitersRejectUnsent(h) ==
  /\ \A w \in C20_Waiting(h) :
       /\ w \notin BagToSet(req')
       /\ \E e \in last' :
            /\ e.step = "await"
            /\ e.a = w.a /\ e.method = w.method /\ e.target = w.target
            /\ e.copies = req[w]
            /\ e.out = h.out
  /\ \A x \in BagToSet(req') : x \in BagToSet(req) /\ req'[x] <= req[x]

\* C20 (as stated): when a handshake rejects, every request that awaited it
\* rejects with the same error and sends nothing; when the rejection is a 401,
\* the step schedules exactly one 1 s check, whatever the number of waiters
C20_OneCheckForWaiters ==
  [][\A h \in last' :
       (h.id # 0 /\ h.out.res = "reject") =>
         /\ C20_WaitersRejectUnsent(h)
         /\ h.status = 401 => (checks' = checks + 1 /\ timers' = <<1000>>)]_vars

\* C20 (amended): when a handshake rejects, every request that awaited it
\* rejects with the same error and sends nothing; when the rejection is a 401,
\* the requests that awaited it schedule no check: the step schedules the one
\* 1 s check of the handshake when the handshake's instance kept the workspace
\* or file it was constructed for, and none when it kept nothing
C20_WaitersScheduleNothing ==
  [][\A h \in last' :
       (h.id # 0 /\ h.out.res = "reject") =>
         /\ C20_WaitersRejectUnsent(h)
         /\ h.status = 401 =>
              IF TruthyWsOrFile(h.a.wsOrFile)
              THEN checks' = checks + 1 /\ timers' = <<1000>>
              ELSE checks' = checks /\ timers' = <<>>]_vars

\* C20 witness: a handshake was answered 401 while two requests awaited it;
\* both rejected with the 401 and one 1 s check is scheduled
C20_TwoWaitersOneCheck ==
  /\ \E h \in last : h.id # 0 /\ h.status = 401 /\ h.out = RejectHttp(401)
  /\ \E e \in last :
       e.step = "await" /\ e.copies = 2 /\ e.out = RejectHttp(401)
  /\ timers = <<1000>>
  /\ checks = 1

----------------------------------------------------------------------------
(* The query string: buildParams *)

\* The most keys a params object has
MaxParams == 4

\* A value of params: typeof, and the boolean, string or number it is
ParamValue(type, b, str, n) == [type |-> type, b |-> b, str |-> str, n |-> n]

\* The values the wrappers pass: true, false, "", "v", 0, 5, null, undefined
ParamValues ==
  { ParamValue("boolean", TRUE, "", 0), ParamValue("boolean", FALSE, "", 0),
    ParamValue("string", FALSE, "", 0), ParamValue("string", FALSE, "v", 0),
    ParamValue("number", FALSE, "", 0), ParamValue("number", FALSE, "", 5),
    ParamValue("null", FALSE, "", 0), ParamValue("undefined", FALSE, "", 0) }

ParamKeys == {"flag", "name", "count", "x"}

\* The params argument of request(): left out, or an object
Params(given, entries) == [given |-> given, entries |-> entries]

\* JavaScript truthiness of a value of params
TruthyValue(value) ==
  CASE value.type = "boolean" -> value.b
    [] value.type = "string" -> value.str # ""
    [] value.type = "number" -> value.n # 0
    [] OTHER -> FALSE

\* `${value}` for a string or a number
TemplateText(value) ==
  IF value.type = "number" THEN ToString(value.n) ELSE value.str

\* The body of the forEach with the typeof test left out
PushedWhenTruthy(result, key, value) ==
  IF TruthyValue(value) /\ value # ParamValue("string", FALSE, "", 0)
  THEN Append(result, <<key, "=", TemplateText(value)>>)
  ELSE result

\* The body of the forEach of buildParams: result after one key
Pushed(result, key, value) ==
  IF value.type = "boolean"
  THEN Append(result, <<key, "=", IF value.b THEN "1" ELSE "0">>)
  ELSE IF TruthyValue(value) /\ value # ParamValue("string", FALSE, "", 0)
       THEN Append(result, <<key, "=", TemplateText(value)>>)
       ELSE result

\* Object.keys(params).forEach(...)
RECURSIVE ForEachKey(_, _)
ForEachKey(result, entries) ==
  IF entries = <<>> THEN result
  ELSE ForEachKey(Pushed(result, Head(entries)[1], Head(entries)[2]),
                  Tail(entries))

\* result.join("&")
RECURSIVE Join(_)
Join(result) ==
  IF Len(result) = 0 THEN <<>>
  ELSE IF Len(result) = 1 THEN result[1]
       ELSE result[1] \o <<"&">> \o Join(Tail(result))

\* buildParams(): the query as the pieces it is concatenated from
BuildParams(params) ==
  IF ~params.given THEN <<>>
  ELSE LET result == ForEachKey(<<>>, params.entries)
       IN  IF Len(result) # 0 THEN <<"?">> \o Join(result) ELSE <<>>

\* The caller sets one more key of the params object it will pass; Object.keys
\* lists the keys in the order they were set
SetsParam(key, value) ==
  /\ probe[1].params.given
  /\ ~probe[1].built
  /\ Len(probe[1].params.entries) < MaxParams
  /\ \A i \in 1..Len(probe[1].params.entries) :
       probe[1].params.entries[i][1] # key
  /\ probe' = <<[probe[1] EXCEPT
                   !.params.entries = Append(@, <<key, value>>)]>>
  /\ UNCHANGED <<ws, cache, authRequestMap, req, panel, checks, timers, last,
                 api>>

\* request() builds the query of the params it was called with
BuildsQuery ==
  /\ ~probe[1].built
  /\ probe' = <<[probe[1] EXCEPT !.built = TRUE,
                                 !.query = BuildParams(probe[1].params)]>>
  /\ UNCHANGED <<ws, cache, authRequestMap, req, panel, checks, timers, last,
                 api>>

\* The params of a call of request() to come: left out, or an object without
\* keys yet
InitParams ==
  /\ ws = WsEmpty
  /\ cache = [k \in CacheKeys |-> <<>>]
  /\ authRequestMap = [t \in Targets |-> NoAuth]
  /\ req = EmptyBag
  /\ panel = [text |-> <<>>, tooltip |-> ""]
  /\ checks = 0
  /\ timers = <<>>
  /\ last = {}
  /\ api = NoApi
  /\ probe \in { <<[params |-> Params(given, <<>>), built |-> FALSE,
                      query |-> <<>>]>> : given \in BOOLEAN }

NextParams ==
  \/ \E key \in ParamKeys, value \in ParamValues : SetsParam(key, value)
  \/ BuildsQuery

SpecParams == InitParams /\ [][NextParams]_vars

\* The entries C12 says are listed
C12_Listed(entry) ==
  \/ entry[2].type = "boolean"
  \/ entry[2].type = "string" /\ entry[2].str # ""
  \/ entry[2].type = "number" /\ entry[2].n # 0

\* key=1, key=0 or key=value
C12_Piece(entry) ==
  <<entry[1], "=",
    CASE entry[2] = ParamValue("boolean", TRUE, "", 0) -> "1"
      [] entry[2] = ParamValue("boolean", FALSE, "", 0) -> "0"
      [] entry[2].type = "number" -> ToString(entry[2].n)
      [] OTHER -> entry[2].str>>

\* The pieces of the listed entries, "?" before the first and "&" before each
\* of the others
C12_Query(entries) ==
  LET listed == SelectSeq(entries, C12_Listed)
      piece(i) == <<IF i = 1 THEN "?" ELSE "&">> \o C12_Piece(listed[i])
      RECURSIVE upto(_)
      upto(i) == IF i = 0 THEN <<>> ELSE upto(i - 1) \o piece(i)
  IN  upto(Len(listed))

\* C12: the query lists, in the order of the keys, key=1 for true, key=0 for
\* false and key=value for a non-boolean value that is truthy and not "";
\* every other key is omitted, and nothing at all (no "?") when no key is
\* listed
C12_QueryEncoded ==
  (probe # <<>> /\ probe[1].built) =>
    probe[1].query = C12_Query(probe[1].params.entries)

\* C12 witness: {flag: true, name: "", count: 0, x: "v"} gave ?flag=1&x=v
C12_Example ==
  /\ probe # <<>>
  /\ probe[1].built
  /\ probe[1].params =
       Params(TRUE, << <<"flag", ParamValue("boolean", TRUE, "", 0)>>,
                       <<"name", ParamValue("string", FALSE, "", 0)>>,
                       <<"count", ParamValue("number", FALSE, "", 0)>>,
                       <<"x", ParamValue("string", FALSE, "v", 0)>> >>)
  /\ probe[1].query = <<"?", "flag", "=", "1", "&", "x", "=", "v">>

----------------------------------------------------------------------------
(* serverInfo: what it does with the answer of request(0, "GET") *)

\* data.version, as the characters startsWith reads
VersionStrings == { <<"I", "R", "I", "S", " ", "2">>, <<"C", "a", "c", "h", "e">> }

\* data.namespaces, the list the server advertises
NamespaceLists == { {}, {"USER"}, {"user", "%SYS"} }

\* data.api
InfoVersions == {0, 1, 2}

\* info.result.content
Content(apiVersion, namespaces, version) ==
  [api |-> apiVersion, namespaces |-> namespaces, version |-> version]

\* The envelopes request(0, "GET") resolves with: with a content, without one
Infos ==
  { [content |-> <<Content(v, l, s)>>] :
      v \in InfoVersions, l \in NamespaceLists, s \in VersionStrings }
    \cup { [content |-> <<>>] }

\* throw { code: "WrongNamespace", message: ... }
ThrowWrongNamespace ==
  Outcome("reject", "thrown", NoNum,
          "This server does not have specified namespace", "WrongNamespace",
          NoNum, <<>>)
\* .then(() => info)
ResolveInfo == Outcome("resolve", "info", NoNum, "", Undef, NoNum, <<>>)
\* the then-handler returns nothing
ResolveNothing == Outcome("resolve", "undefined", NoNum, "", Undef, NoNum, <<>>)

\* info && info.result && info.result.content && info.result.content.api > 0
HasApi(info) == info.content # <<>> /\ info.content[1].api > 0

NamespaceMissingAsGiven(a, data) ==
  /\ TruthyStr(OrStr(a.namespace, a._config.ns))
  /\ OrStr(a.namespace, a._config.ns) \notin data.namespaces

\* this.ns && this.ns.length && !data.namespaces.includes(this.ns)
NamespaceMissing(a, data) ==
  /\ TruthyStr(Ns(a))
  /\ Ns(a) \notin data.namespaces

\* The two updates of Promise.all
Persist(w, a, data) ==
  WsUpdate(WsUpdate(w, a.configName, "apiVersion", <<data.api>>),
           a.configName, "iris", <<StartsWith(data.version, <<"I", "R", "I", "S">>)>>)

\* What serverInfo settles with
ServerInfoOutcome(a, info) ==
  IF HasApi(info)
  THEN IF NamespaceMissing(a, info.content[1]) THEN ThrowWrongNamespace
       ELSE ResolveInfo
  ELSE ResolveNothing

\* api.serverInfo(), from the answer of its request on: request(0, "GET")
\* resolves only on a connection that passed its tests
ServerInfo(info) ==
  /\ Usable(Config(api, ws))
  /\ ws' = IF ServerInfoOutcome(api, info) = ResolveInfo
           THEN Persist(ws, api, info.content[1])
           ELSE ws
  /\ probe' = <<[info |-> info, out |-> ServerInfoOutcome(api, info)]>>
  /\ last' = {}
  /\ timers' = <<>>
  /\ UNCHANGED <<cache, authRequestMap, req, panel, checks, api>>

InitInfo ==
  /\ ws = WsEmpty
  /\ cache = [k \in CacheKeys |-> <<>>]
  /\ authRequestMap = [t \in Targets |-> NoAuth]
  /\ req = EmptyBag
  /\ panel = [text |-> <<>>, tooltip |-> ""]
  /\ checks = 0
  /\ timers = <<>>
  /\ last = {}
  /\ api \in StartApis
  /\ probe = <<>>

NextInfo ==
  \/ \E namespace \in StartNamespaces : CallSetNamespace(namespace)
  \/ \E info \in Infos : ServerInfo(info)

SpecInfo == InitInfo /\ [][NextInfo]_vars

\* The learned API version and the server-family flag are as they were
NothingPersisted ==
  /\ ws'[api.configName]["apiVersion"] = ws[api.configName]["apiVersion"]
  /\ ws'[api.configName]["iris"] = ws[api.configName]["iris"]

----------------------------------------------------------------------------
(* The config getter and the runtime overrides of workspaceState *)

\* The fields of a connection that workspaceState overrides
Overridable == {"host", "port", "password", "apiVersion", "docker"}

\* The password stored at run time
OverridePassword == "q"

\* workspaceState.update(api.configName + ":" + field, value), undefined
\* removing the value
Stored(field, slot) ==
  /\ ws' = WsUpdate(ws, api.configName, field, slot)
  /\ last' = {}
  /\ timers' = <<>>
  /\ probe' = <<>>
  /\ UNCHANGED <<cache, authRequestMap, req, panel, checks, api>>

\* api.config is read
GetConfig ==
  /\ probe' = <<[config |-> Config(api, ws)]>>
  /\ last' = {}
  /\ timers' = <<>>
  /\ UNCHANGED <<ws, cache, authRequestMap, req, panel, checks, api>>

InitConfig ==
  /\ ws = WsEmpty
  /\ cache = [k \in CacheKeys |-> <<>>]
  /\ authRequestMap = [t \in Targets |-> NoAuth]
  /\ req = EmptyBag
  /\ panel = [text |-> <<>>, tooltip |-> ""]
  /\ checks = 0
  /\ timers = <<>>
  /\ last = {}
  /\ api \in StartApis
  /\ probe = <<>>

NextConfig ==
  \/ \E host \in {<<>>, <<OverrideHost>>} : Stored("host", host)
  \/ \E port \in {<<>>, <<OverridePort>>} : Stored("port", port)
  \/ \E password \in {<<>>, <<OverridePassword>>} : Stored("password", password)
  \/ \E docker \in {<<>>, <<TRUE>>, <<FALSE>>} : Stored("docker", docker)
  \/ \E apiVersion \in LearnedVersions : StoreApiVersion(apiVersion)
  \/ GetConfig

SpecConfig == InitConfig /\ [][NextConfig]_vars

\* The static value of a field, as setConnection left it in _config
StaticSlot(a, field) ==
  IF field = "docker" THEN a._config.docker ELSE <<a._config[field]>>

\* C17 (as stated): for every connection and each of host, port, password,
\* apiVersion and docker, the getter returns the value stored in workspaceState
\* for the connection when there is one, and the static value otherwise
C17_OverrideElseStatic ==
  probe # <<>> =>
    \A field \in Overridable :
      <<probe[1].config[field]>> =
        IF ws[api.configName][field] # <<>>
        THEN ws[api.configName][field]
        ELSE StaticSlot(api, field)

\* C17 (amended): host and port are the stored value, else the static one, on
\* a workspace-local connection, and the static one on an external-server
\* connection; password is the stored value, else the static one; apiVersion is
\* the stored value, else DEFAULT_API_VERSION; docker is the stored value, else
\* false
C17_OverrideElseDefault ==
  probe # <<>> =>
    LET c == probe[1].config
        o == ws[api.configName]
    IN  /\ c.host = IF ~api.externalServer /\ o.host # <<>>
                    THEN o.host[1] ELSE api._config.host
        /\ c.port = IF ~api.externalServer /\ o.port # <<>>
                    THEN o.port[1] ELSE api._config.port
        /\ c.password = IF o.password # <<>>
                        THEN o.password[1] ELSE api._config.password
        /\ c.apiVersion = IF o.apiVersion # <<>>
                          THEN o.apiVersion[1] ELSE DEFAULT_API_VERSION
        /\ c.docker = IF o.docker # <<>> THEN o.docker[1] ELSE FALSE

\* C17 witness: the config of an external-server connection was read while a
\* host, a port and a password were stored for it: the password is the stored
\* one, the host and the port are the server's
C17_ExternalWithOverrides ==
  /\ probe # <<>>
  /\ api.externalServer
  /\ ws[api.configName]["host"] = <<OverrideHost>>
  /\ ws[api.configName]["port"] = <<OverridePort>>
  /\ ws[api.configName]["password"] = <<OverridePassword>>
  /\ probe[1].config.host = "h1"
  /\ probe[1].config.port = 1
  /\ probe[1].config.password = OverridePassword

====
